---- MODULE Spec2Model ----
(***************************************************************************)
(* A model of karpenter's provisional node (scheduling.Node, its Add) and  *)
(* of the AWS instance provider (InstanceProvider.Create and the helpers   *)
(* it calls).                                                              *)
(*                                                                         *)
(* Two specifications share the module: SpecNode runs NewNode followed by  *)
(* any sequence of Add calls; SpecCreate runs one Create call, the         *)
(* answers of its collaborators and of EC2 being chosen                    *)
(* nondeterministically.                                                   *)
(***************************************************************************)
EXTENDS Integers, Sequences, FiniteSets, TLC

(***************************************************************************)
(* Bounds of the model.                                                    *)
(***************************************************************************)
\* the most pods one node is offered before the model stops calling Add
MaxPods == 3
\* the most per-override errors one CreateFleet response carries
MaxFleetErrors == 2

(***************************************************************************)
(* The universe the inputs are drawn from.                                 *)
(***************************************************************************)
CapacityTypeSpot == "spot"
CapacityTypeOnDemand == "on-demand"
Zones == {"za", "zb"}
CapacityTypes == {CapacityTypeSpot, CapacityTypeOnDemand}
Labels == {"x", "y"}

LabelTopologyZone == "zone"
LabelCapacityType == "capacity-type"
LabelCustom == "label"
Keys == {LabelTopologyZone, LabelCapacityType, LabelCustom}

Universe(key) ==
    CASE key = LabelTopologyZone -> Zones
      [] key = LabelCapacityType -> CapacityTypes
      [] key = LabelCustom -> Labels

Offering(zone, capacityType) == [Zone |-> zone, CapacityType |-> capacityType]

\* The instance types the cloud provider knows, ordered as the callers order
\* them (smallest first).  cpu and gpu are the entries of Resources().
Catalog ==
    [ s1 |-> [cpu |-> 2, gpu |-> 0, arch |-> "amd64",
              offerings |-> << Offering("za", CapacityTypeSpot),
                               Offering("zb", CapacityTypeOnDemand) >>],
      s2 |-> [cpu |-> 2, gpu |-> 1, arch |-> "amd64",
              offerings |-> << Offering("za", CapacityTypeSpot),
                               Offering("za", CapacityTypeOnDemand) >>],
      s3 |-> [cpu |-> 4, gpu |-> 0, arch |-> "arm64",
              offerings |-> << Offering("zb", CapacityTypeSpot),
                               Offering("za", CapacityTypeOnDemand) >>],
      s4 |-> [cpu |-> 4, gpu |-> 0, arch |-> "amd64",
              offerings |-> << Offering("za", CapacityTypeSpot),
                               Offering("zb", CapacityTypeSpot) >>] ]
CatalogOrder == << "s1", "s2", "s3", "s4" >>

Name(instanceType) == instanceType
Offerings(instanceType) == Catalog[instanceType].offerings
Resources(instanceType) ==
    [cpu |-> Catalog[instanceType].cpu, gpu |-> Catalog[instanceType].gpu]

RECURSIVE SelectSeq2(_, _)
\* the sub-list of s whose elements are in the set keep, in the order of s
SelectSeq2(s, keep) ==
    IF s = << >> THEN << >>
    ELSE IF Head(s) \in keep
         THEN << Head(s) >> \o SelectSeq2(Tail(s), keep)
         ELSE SelectSeq2(Tail(s), keep)

Range(s) == { s[i] : i \in DOMAIN s }

\* every ordered candidate list: the sub-lists of the catalog's order
CandidateLists == { SelectSeq2(CatalogOrder, keep) : keep \in SUBSET Range(CatalogOrder) }

(***************************************************************************)
(* Requirement sets: for every key the set of values still allowed (a key  *)
(* that is not constrained allows its whole universe).                     *)
(***************************************************************************)
Requirements(zones, capacityTypes, labels) ==
    [key \in Keys |->
        CASE key = LabelTopologyZone -> zones
          [] key = LabelCapacityType -> capacityTypes
          [] key = LabelCustom -> labels]

\* Requirements.Compatible: no key is left without an allowed value
Compatible(r, podRequirements) ==
    \A key \in Keys : r[key] \cap podRequirements[key] # {}

\* Requirements.Add: a new requirement set, per key the intersection
RequirementsAdd(r, podRequirements) ==
    [key \in Keys |-> r[key] \cap podRequirements[key]]

\* resources.Merge: a new resource list, the element-wise sum
Merge(a, b) == [cpu |-> a.cpu + b.cpu, gpu |-> a.gpu + b.gpu]

\* cloudprovider.FilterInstanceTypes: the shapes that fit the requests and keep
\* an offering in an allowed zone under an allowed capacity type
Fits(instanceType, reqs) ==
    /\ reqs.cpu <= Resources(instanceType).cpu
    /\ reqs.gpu <= Resources(instanceType).gpu

HasOffering(instanceType, requirements) ==
    \E i \in DOMAIN Offerings(instanceType) :
        /\ Offerings(instanceType)[i].Zone \in requirements[LabelTopologyZone]
        /\ Offerings(instanceType)[i].CapacityType \in requirements[LabelCapacityType]

RECURSIVE FilterInstanceTypes(_, _, _)
FilterInstanceTypes(instanceTypes, requirements, reqs) ==
    IF instanceTypes = << >> THEN << >>
    ELSE LET rest == FilterInstanceTypes(Tail(instanceTypes), requirements, reqs)
         IN  IF Fits(Head(instanceTypes), reqs) /\ HasOffering(Head(instanceTypes), requirements)
             THEN << Head(instanceTypes) >> \o rest
             ELSE rest

(***************************************************************************)
(* The inputs of the node: constraints, daemon overhead, pods.             *)
(***************************************************************************)
ConstraintChoices ==
    { Requirements(Zones, CapacityTypes, Labels),
      Requirements({"za"}, CapacityTypes, Labels),
      Requirements(Zones, {CapacityTypeOnDemand}, {"x"}),
      Requirements(Zones, {CapacityTypeSpot}, Labels) }

DaemonChoices == { [cpu |-> 0, gpu |-> 0], [cpu |-> 1, gpu |-> 0] }

Pod(zones, capacityTypes, labels, cpu, gpu) ==
    [requirements |-> Requirements(zones, capacityTypes, labels),
     requests |-> [cpu |-> cpu, gpu |-> gpu]]

PodChoices ==
    { Pod(Zones, CapacityTypes, Labels, 0, 0),
      Pod(Zones, CapacityTypes, Labels, 1, 0),
      Pod({"za"}, CapacityTypes, Labels, 1, 0),
      Pod({"zb"}, CapacityTypes, Labels, 2, 0),
      Pod(Zones, {CapacityTypeSpot}, Labels, 1, 1),
      Pod(Zones, CapacityTypes, {"y"}, 1, 0),
      Pod(Zones, CapacityTypes, Labels, 3, 0) }

NewPodRequirements(pod) == pod.requirements
RequestsForPods(pod) == pod.requests

VARIABLES
    \* scheduling.Node
    Constraints,          \* n.Constraints.Requirements
    InstanceTypeOptions,  \* n.InstanceTypeOptions
    Pods,                 \* n.Pods
    requests,             \* n.requests
    \* what the caller of the node holds
    original,             \* the instanceTypes given to NewNode
    addErr                \* what the last Add returned ("none" before the first)

nodeVars == << Constraints, InstanceTypeOptions, Pods, requests, original, addErr >>

VARIABLES
    \* the arguments and the ambient options of the Create call
    createConstraints,    \* constraints.Requirements
    candidates,           \* instanceTypes as the caller gave them
    nodeNameConvention,   \* injection.GetOptions(ctx).GetAWSNodeNameConvention()
    \* where the call is
    pc,
    \* locals of Create and launchInstance
    instanceTypes,        \* after filterInstanceTypes and the cap
    capacityType,
    subnets,              \* the answer of subnetProvider.Get
    launchTemplates,      \* the answer of launchTemplateProvider.Get
    createFleetInput,     \* the request as submitted
    createFleetOutput,    \* the answer of CreateFleetWithContext, while launchInstance holds it
    id,                   \* the instance id launchInstance returned
    \* the outside world
    fleetCalls,           \* CreateFleet requests EC2 received
    describeCalls,        \* DescribeInstances requests EC2 received
    describeOutput,       \* the answer to the last of them
    terminateCalls,       \* TerminateInstances requests EC2 received
    cache,                \* the CacheUnavailable calls, in order
    launched,             \* the instance EC2 launched, as EC2 describes it
    \* what Create returned
    createErr,
    errs,                 \* the errors combineFleetErrors joined, each with its count
    node

createVars ==
    << createConstraints, candidates, nodeNameConvention, pc, instanceTypes, capacityType,
       subnets, launchTemplates, createFleetInput, createFleetOutput, id, fleetCalls,
       describeCalls, describeOutput, terminateCalls, cache, launched, createErr, errs,
       node >>

VARIABLES
    \* a Terminate call
    terminateInput,       \* InstanceIds of the TerminateInstances request, None before one
    terminateOutput,      \* the answer of TerminateInstances
    terminateErr          \* what Terminate returned

terminateVars == << terminateInput, terminateOutput, terminateErr >>

VARIABLES
    \* two Create calls of one provider at the same time
    sharedSubnets,        \* the slice subnetProvider.Get gave to both
    calls                 \* the locals of getOverrides in each call

concurrentVars == << sharedSubnets, calls >>

vars == << nodeVars, createVars, terminateVars, concurrentVars >>


None == "none"
ErrNil == "nil"
ErrIncompatible == "IncompatibleConstraints"
ErrNoInstanceType == "NoInstanceTypeSatisfiesDemand"

\* NewNode: the constraints, the candidate list as given, the daemon overhead
NewNode(constraints, daemonResources, its) ==
    /\ Constraints = constraints
    /\ InstanceTypeOptions = its
    /\ Pods = << >>
    /\ requests = daemonResources

NodeInit ==
    /\ \E constraints \in ConstraintChoices, daemonResources \in DaemonChoices,
          its \in CandidateLists :
          /\ NewNode(constraints, daemonResources, its)
          /\ original = its
    /\ addErr = None

\* Add, line 49-54: the compatibility check, skipped on a node without pods

AddIncompatibleNever(pod) == FALSE

AddIncompatible(pod) ==
    /\ Len(Pods) # 0
    /\ ~Compatible(Constraints, NewPodRequirements(pod))

\* Add, line 56
AddRequests(pod) == Merge(requests, RequestsForPods(pod))

\* Add, line 57
AddInstanceTypesStale(requirements, reqs) ==
    FilterInstanceTypes(InstanceTypeOptions, requirements, requests)
AddInstanceTypes(requirements, reqs) ==
    FilterInstanceTypes(InstanceTypeOptions, requirements, reqs)

\* Add, line 58
AddNoInstanceTypeNever(its) == FALSE
AddNoInstanceType(its) == Len(its) = 0

\* Add, line 58-60: the error return, before any assignment to the node
AddFailedEarlyCommit(requirements, reqs) ==
    /\ Constraints' = requirements
    /\ requests' = reqs
    /\ UNCHANGED << InstanceTypeOptions, Pods >>
AddFailed(requirements, reqs) ==
    UNCHANGED << Constraints, InstanceTypeOptions, Pods, requests >>

Add(pod) ==
    LET podRequirements == NewPodRequirements(pod)
        requirements == RequirementsAdd(Constraints, podRequirements)
        reqs == AddRequests(pod)
        its == AddInstanceTypes(requirements, reqs)
    IN  IF AddIncompatible(pod)
        THEN /\ addErr' = ErrIncompatible
             /\ UNCHANGED << Constraints, InstanceTypeOptions, Pods, requests >>
        ELSE IF AddNoInstanceType(its)
        THEN /\ addErr' = ErrNoInstanceType
             /\ AddFailed(requirements, reqs)
        ELSE /\ Pods' = Append(Pods, pod)
             /\ InstanceTypeOptions' = its
             /\ requests' = reqs
             /\ Constraints' = requirements
             /\ addErr' = ErrNil

AddCall ==
    /\ Len(Pods) < MaxPods
    /\ \E pod \in PodChoices : Add(pod)
    /\ UNCHANGED original
    /\ UNCHANGED << createVars, terminateVars, concurrentVars >>

NodeNext == AddCall

(***************************************************************************)
(* The instance provider.  Inputs of one Create call and the answers of    *)
(* its collaborators.                                                      *)
(***************************************************************************)
\* the cap on the instance types of one fleet request, scaled down to the catalog
MaxInstanceTypes == 2
\* retry.Attempts(6)
Attempts == 6
\* a nil override.Priority
NoPriority == -1

InsufficientCapacityErrorCode == "InsufficientInstanceCapacity"
IPName == "ip-name"
ResourceName == "resource-name"

CreateConstraintChoices ==
    { Requirements(Zones, CapacityTypes, Labels),
      Requirements({"za"}, CapacityTypes, Labels),
      Requirements({"zb"}, CapacityTypes, Labels),
      Requirements(Zones, {CapacityTypeOnDemand}, Labels),
      Requirements({"zb"}, {CapacityTypeSpot}, Labels) }

\* Requirements.Zones() and Requirements.CapacityTypes()
ZonesOf(constraints) == constraints[LabelTopologyZone]
CapacityTypesOf(constraints) == constraints[LabelCapacityType]

Subnet(subnetId, zone, count) ==
    [SubnetId |-> subnetId, AvailabilityZone |-> zone, AvailableIpAddressCount |-> count]

\* what subnetProvider.Get may return
SubnetAnswers ==
    { << >>,
      << Subnet("sn-a1", "za", 5) >>,
      << Subnet("sn-a2", "za", 9), Subnet("sn-a1", "za", 5), Subnet("sn-b1", "zb", 3) >>,
      << Subnet("sn-a1", "za", 5), Subnet("sn-a3", "za", 5), Subnet("sn-b1", "zb", 3) >> }

\* launchTemplateProvider.Get: one launch template per architecture, each with
\* the instance types of that architecture in the order they were given
LaunchTemplateName(instanceType) == Catalog[instanceType].arch
LaunchTemplatesGet(its) ==
    [name \in { LaunchTemplateName(its[i]) : i \in DOMAIN its } |->
        SelectSeq2(its,
                   { t \in Range(its) : LaunchTemplateName(t) = name })]


NoInput == [DefaultTargetCapacityType |-> None, TotalTargetCapacity |-> 0,
            LaunchTemplateConfigs |-> {}]
NoOutput == [err |-> FALSE, Instances |-> << >>, Errors |-> << >>]
NoInstance == [InstanceId |-> None, InstanceType |-> None, AvailabilityZone |-> None,
               PrivateDnsName |-> "", Spot |-> FALSE]
NoNode == [Name |-> None, ProviderID |-> << >>, Labels |-> << >>]
NoAnswer == [kind |-> None, instance |-> NoInstance]

CreateInit ==
    /\ createConstraints \in CreateConstraintChoices
    /\ candidates \in CandidateLists
    /\ nodeNameConvention \in {IPName, ResourceName}
    /\ pc = "Create"
    /\ instanceTypes = << >>
    /\ capacityType = None
    /\ subnets = << >>
    /\ launchTemplates = << >>
    /\ createFleetInput = NoInput
    /\ createFleetOutput = NoOutput
    /\ id = None
    /\ fleetCalls = 0
    /\ describeCalls = 0
    /\ describeOutput = NoAnswer
    /\ terminateCalls = 0
    /\ cache = << >>
    /\ launched = NoInstance
    /\ createErr = None
    /\ errs = << >>
    /\ node = NoNode

(***************************************************************************)
(* filterInstanceTypes, getCapacityType, getOverrides.                     *)
(***************************************************************************)
IsGPU(instanceType) == Resources(instanceType).gpu # 0

RECURSIVE GenericInstanceTypes(_)
GenericInstanceTypes(its) ==
    IF its = << >> THEN << >>
    ELSE IF ~IsGPU(Head(its))
         THEN << Head(its) >> \o GenericInstanceTypes(Tail(its))
         ELSE GenericInstanceTypes(Tail(its))

filterInstanceTypesKeepAll(its) == its

filterInstanceTypes(its) ==
    LET genericInstanceTypes == GenericInstanceTypes(its)
    IN  IF Len(genericInstanceTypes) # 0 THEN genericInstanceTypes ELSE its

\* Create, line 73-76
CreateInstanceTypes(its) ==
    LET filtered == filterInstanceTypes(its)
    IN  IF Len(filtered) > MaxInstanceTypes
        THEN SubSeq(filtered, 1, MaxInstanceTypes)
        ELSE filtered

\* getCapacityType, line 315
IsSpotOfferingAnyZone(constraints, offering) ==
    offering.CapacityType = CapacityTypeSpot
IsSpotOffering(constraints, offering) ==
    /\ offering.Zone \in ZonesOf(constraints)
    /\ offering.CapacityType = CapacityTypeSpot

RECURSIVE SpotOfferingFrom(_, _, _)
\* the inner loop of getCapacityType, from offering j on
SpotOfferingFrom(constraints, offerings, j) ==
    IF j > Len(offerings) THEN FALSE
    ELSE IF IsSpotOffering(constraints, offerings[j]) THEN TRUE
         ELSE SpotOfferingFrom(constraints, offerings, j + 1)

RECURSIVE SpotInstanceTypeFrom(_, _, _)
\* the outer loop of getCapacityType, from instance type i on
SpotInstanceTypeFrom(constraints, its, i) ==
    IF i > Len(its) THEN FALSE
    ELSE IF SpotOfferingFrom(constraints, Offerings(its[i]), 1) THEN TRUE
         ELSE SpotInstanceTypeFrom(constraints, its, i + 1)

getCapacityType(constraints, its) ==
    IF /\ CapacityTypeSpot \in CapacityTypesOf(constraints)
       /\ SpotInstanceTypeFrom(constraints, its, 1)
    THEN CapacityTypeSpot
    ELSE CapacityTypeOnDemand

\* sort.Slice by AvailableIpAddressCount: any ascending order of the slice (the
\* sort is not stable, equal counts may come out in either order)
SortSlice(s) ==
    LET n == Len(s)
        perms == { p \in [1..n -> 1..n] : \A a, b \in 1..n : a # b => p[a] # p[b] }
    IN  { [i \in 1..n |-> s[p[i]]] : p \in
            { q \in perms : \A a, b \in 1..n :
                a < b => s[q[a]].AvailableIpAddressCount <= s[q[b]].AvailableIpAddressCount } }

\* getOverrides, line 194-196: the last subnet of each zone in the sorted slice

ZonalSubnetsFirst(sorted) ==
    [zone \in { sorted[i].AvailabilityZone : i \in DOMAIN sorted } |->
        LET first == CHOOSE i \in DOMAIN sorted :
                        /\ sorted[i].AvailabilityZone = zone
                        /\ \A k \in DOMAIN sorted :
                              sorted[k].AvailabilityZone = zone => i <= k
        IN  sorted[first]]

ZonalSubnets(sorted) ==
    [zone \in { sorted[i].AvailabilityZone : i \in DOMAIN sorted } |->
        LET last == CHOOSE i \in DOMAIN sorted :
                        /\ sorted[i].AvailabilityZone = zone
                        /\ \A k \in DOMAIN sorted :
                              sorted[k].AvailabilityZone = zone => k <= i
        IN  sorted[last]]

\* getOverrides, line 220-222: i is the index in the list getOverrides was given
OverridePriority(i, ct) == IF ct = CapacityTypeSpot THEN i ELSE NoPriority

\* getOverrides, line 203
ZoneAllowedAlways(zones, offering) == TRUE
ZoneAllowed(zones, offering) == offering.Zone \in zones

RECURSIVE OfferingOverrides(_, _, _, _, _, _)
\* getOverrides, line 199-224: the overrides of the instance type at index i
OfferingOverrides(instanceType, i, offerings, zonalSubnets, zones, ct) ==
    IF offerings = << >> THEN << >>
    ELSE LET offering == Head(offerings)
             rest == OfferingOverrides(instanceType, i, Tail(offerings),
                                       zonalSubnets, zones, ct)
         IN  IF ct # offering.CapacityType THEN rest
             ELSE IF ~ZoneAllowed(zones, offering) THEN rest
             ELSE IF offering.Zone \notin DOMAIN zonalSubnets THEN rest
             ELSE << [InstanceType |-> Name(instanceType),
                      SubnetId |-> zonalSubnets[offering.Zone].SubnetId,
                      AvailabilityZone |-> zonalSubnets[offering.Zone].AvailabilityZone,
                      Priority |-> OverridePriority(i, ct)] >> \o rest

RECURSIVE OverridesFrom(_, _, _, _, _)
\* getOverrides, line 198: the loop over instanceTypeOptions, i counting from 0
OverridesFrom(instanceTypeOptions, i, zonalSubnets, zones, ct) ==
    IF i >= Len(instanceTypeOptions) THEN << >>
    ELSE OfferingOverrides(instanceTypeOptions[i + 1], i,
                           Offerings(instanceTypeOptions[i + 1]), zonalSubnets, zones, ct)
         \o OverridesFrom(instanceTypeOptions, i + 1, zonalSubnets, zones, ct)

\* getOverrides; sorted is the subnets slice as sort.Slice left it
getOverrides(instanceTypeOptions, sorted, zones, ct) ==
    OverridesFrom(instanceTypeOptions, 0, ZonalSubnets(sorted), zones, ct)

(***************************************************************************)
(* Create and launchInstance up to the CreateFleet request.                *)
(***************************************************************************)
\* getLaunchTemplateConfigs, line 176
KeepEveryConfig(overrides) == TRUE
KeepConfig(overrides) == Len(overrides) > 0

\* getLaunchTemplateConfigs, line 168-179; sorts[name] is the subnets slice as
\* the getOverrides call of that launch template sorted it
LaunchTemplateConfigs(lts, sorts, zones, ct) ==
    { cfg \in { [LaunchTemplateName |-> name,
                 Overrides |-> getOverrides(lts[name], sorts[name], zones, ct)] :
                name \in DOMAIN lts } :
        KeepConfig(cfg.Overrides) }

\* getLaunchTemplateConfigs, line 180
NoConfigsNever(configs) == FALSE
NoConfigs(configs) == Cardinality(configs) = 0

\* launchInstance, line 129-140

CreateFleetInputOnDemand(configs, ct) ==
    [DefaultTargetCapacityType |-> CapacityTypeOnDemand, TotalTargetCapacity |-> 1,
     LaunchTemplateConfigs |-> configs]

CreateFleetInput(configs, ct) ==
    [DefaultTargetCapacityType |-> ct, TotalTargetCapacity |-> 1,
     LaunchTemplateConfigs |-> configs]

\* Create returns an error before any request to EC2
CreateFails(err) ==
    /\ pc' = "done"
    /\ createErr' = err
    /\ UNCHANGED << createFleetInput, createFleetOutput, id, fleetCalls, describeCalls,
                    describeOutput, terminateCalls, cache, launched, errs, node >>

CreateBegin ==
    /\ pc = "Create"
    /\ LET its == CreateInstanceTypes(candidates)
           ct == getCapacityType(createConstraints, its)
           zones == ZonesOf(createConstraints)
       IN  /\ instanceTypes' = its
           /\ capacityType' = ct
           /\ \E subnetsErr \in BOOLEAN, answer \in SubnetAnswers, templatesErr \in BOOLEAN :
                IF subnetsErr
                THEN /\ subnets' = << >>
                     /\ launchTemplates' = << >>
                     /\ CreateFails("getting subnets")
                ELSE IF templatesErr
                THEN /\ subnets' = answer
                     /\ launchTemplates' = << >>
                     /\ CreateFails("getting launch templates")
                ELSE LET lts == LaunchTemplatesGet(its)
                     IN  /\ launchTemplates' = lts
                         /\ \E sorts \in [DOMAIN lts -> SortSlice(answer)] :
                              LET configs == LaunchTemplateConfigs(lts, sorts, zones, ct)
                              IN  /\ subnets' \in (IF DOMAIN lts = {} THEN { answer }
                                                   ELSE { sorts[name] : name \in DOMAIN lts })
                                  /\ IF NoConfigs(configs)
                                     THEN CreateFails("NoOfferingsAvailable")
                                     ELSE /\ createFleetInput' = CreateFleetInput(configs, ct)
                                          /\ fleetCalls' = fleetCalls + 1
                                          /\ pc' = "CreateFleet"
                                          /\ UNCHANGED << createFleetOutput, id, describeCalls,
                                                          describeOutput, terminateCalls,
                                                          cache, launched, createErr, errs,
                                                          node >>
    /\ UNCHANGED << createConstraints, candidates, nodeNameConvention >>
    /\ UNCHANGED << nodeVars, terminateVars, concurrentVars >>

(***************************************************************************)
(* EC2 answers the CreateFleet request.                                    *)
(***************************************************************************)
AllOverrides(input) ==
    UNION { Range(cfg.Overrides) : cfg \in input.LaunchTemplateConfigs }

FleetError(code, message, override) ==
    [ErrorCode |-> code, ErrorMessage |-> message,
     InstanceType |-> override.InstanceType,
     AvailabilityZone |-> override.AvailabilityZone]

\* the per-override errors EC2 may report for a request
FleetErrorChoices(input) ==
    { FleetError(InsufficientCapacityErrorCode, "no capacity", o) : o \in AllOverrides(input) }
    \cup { FleetError(k[1], k[2], o) :
            k \in { << InsufficientCapacityErrorCode, "try again" >>,
                    << "UnfulfillableCapacity", "no capacity" >> },
            o \in { p \in AllOverrides(input) : p = CHOOSE q \in AllOverrides(input) : TRUE } }

SeqsUpTo(S, n) == UNION { [1..k -> S] : k \in 0..n }

InstancesChoices ==
    { << >>, << [InstanceIds |-> << >>] >>, << [InstanceIds |-> << "i-1" >>] >> }

CreateFleetWithContext ==
    /\ pc = "CreateFleet"
    /\ \E err \in BOOLEAN, instances \in InstancesChoices,
          errors \in SeqsUpTo(FleetErrorChoices(createFleetInput), MaxFleetErrors) :
          createFleetOutput' =
              IF err THEN [err |-> TRUE, Instances |-> << >>, Errors |-> << >>]
              ELSE [err |-> FALSE, Instances |-> instances, Errors |-> errors]
    /\ pc' = "fleetReturned"
    /\ UNCHANGED << createConstraints, candidates, nodeNameConvention, instanceTypes,
                    capacityType, subnets, launchTemplates, createFleetInput, id,
                    fleetCalls, describeCalls, describeOutput, terminateCalls, cache,
                    launched, createErr, errs, node >>
    /\ UNCHANGED << nodeVars, terminateVars, concurrentVars >>

(***************************************************************************)
(* launchInstance after the answer: line 147-154.                          *)
(***************************************************************************)
\* updateUnavailableOfferingsCache, line 302
IsAnyError(err) == TRUE
IsInsufficientCapacity(err) == InsufficientCapacityErrorCode = err.ErrorCode

RECURSIVE updateUnavailableOfferingsCache(_, _, _)
\* the cache after the loop over errors; CacheUnavailable appends its arguments
updateUnavailableOfferingsCache(written, errors, ct) ==
    IF errors = << >> THEN written
    ELSE IF IsInsufficientCapacity(Head(errors))
         THEN updateUnavailableOfferingsCache(
                  Append(written, << Head(errors).InstanceType,
                                     Head(errors).AvailabilityZone, ct >>),
                  Tail(errors), ct)
         ELSE updateUnavailableOfferingsCache(written, Tail(errors), ct)

\* launchInstance, line 147-150
LaunchInstanceHarvest ==
    /\ pc = "fleetReturned"
    /\ IF createFleetOutput.err
       THEN /\ pc' = "done"
            /\ createErr' = "creating fleet"
            /\ createFleetOutput' = NoOutput
            /\ UNCHANGED cache
       ELSE /\ cache' = updateUnavailableOfferingsCache(cache, createFleetOutput.Errors,
                                                        capacityType)
            /\ pc' = "resultCheck"
            /\ UNCHANGED << createErr, createFleetOutput >>
    /\ UNCHANGED << createConstraints, candidates, nodeNameConvention, instanceTypes,
                    capacityType, subnets, launchTemplates, createFleetInput, id,
                    fleetCalls, describeCalls, describeOutput, terminateCalls, launched,
                    errs, node >>
    /\ UNCHANGED << nodeVars, terminateVars, concurrentVars >>

\* fmt.Sprintf("%s: %s", code, message)
Sprintf(code, message) == code \o ": " \o message

\* combineFleetErrors: one joined error for every string of the set unique
combineFleetErrorsNoSet(errors) ==
    [str \in { Sprintf(errors[i].ErrorCode, errors[i].ErrorMessage) : i \in DOMAIN errors } |->
        Cardinality({ i \in DOMAIN errors :
                        Sprintf(errors[i].ErrorCode, errors[i].ErrorMessage) = str })]
combineFleetErrors(errors) ==
    LET unique == { Sprintf(errors[i].ErrorCode, errors[i].ErrorMessage) : i \in DOMAIN errors }
    IN  [str \in unique |-> 1]

\* launchInstance, line 151
NoInstanceId(output) ==
    \/ Len(output.Instances) = 0
    \/ Len(output.Instances[1].InstanceIds) = 0

\* launchInstance, line 152 and Create, line 79-81: the error is returned
ResubmitFleet(errors) ==
    /\ pc' = "CreateFleet"
    /\ fleetCalls' = fleetCalls + 1
    /\ UNCHANGED << createErr, errs >>
ReturnFleetErrors(errors) ==
    /\ pc' = "done"
    /\ createErr' = "FleetRequestFailed"
    /\ errs' = combineFleetErrors(errors)
    /\ UNCHANGED fleetCalls

\* the instances EC2 may have launched for the request
LaunchedChoices(input, ct) ==
    { [InstanceId |-> "i-1", InstanceType |-> o.InstanceType,
       AvailabilityZone |-> o.AvailabilityZone, PrivateDnsName |-> "Ip-10-0-0-1",
       Spot |-> (ct = CapacityTypeSpot)] : o \in AllOverrides(input) }

\* launchInstance, line 151-154
LaunchInstanceResult ==
    /\ pc = "resultCheck"
    /\ IF NoInstanceId(createFleetOutput)
       THEN /\ ReturnFleetErrors(createFleetOutput.Errors)
            /\ UNCHANGED << id, launched >>
       ELSE /\ id' = createFleetOutput.Instances[1].InstanceIds[1]
            /\ launched' \in LaunchedChoices(createFleetInput, capacityType)
            /\ pc' = "getInstance"
            /\ UNCHANGED << createErr, errs, fleetCalls >>
    /\ createFleetOutput' = NoOutput
    /\ UNCHANGED << createConstraints, candidates, nodeNameConvention, instanceTypes,
                    capacityType, subnets, launchTemplates, createFleetInput,
                    describeCalls, describeOutput, terminateCalls, cache, node >>
    /\ UNCHANGED << nodeVars, terminateVars, concurrentVars >>

(***************************************************************************)
(* Create, line 82-101: the description lookups and the node.              *)
(***************************************************************************)
\* what DescribeInstances may answer for the launched instance
DescribeAnswers ==
    { [kind |-> "NotFound", instance |-> NoInstance],
      [kind |-> "Error", instance |-> NoInstance],
      [kind |-> "NoReservation", instance |-> NoInstance],
      [kind |-> "Instance", instance |-> launched],
      [kind |-> "Instance", instance |-> [launched EXCEPT !.PrivateDnsName = ""]] }

\* getInstance: the error it returns for an answer, ErrNil when it returns the instance

getInstanceAnyHostname(answer, convention) ==
    IF answer.kind = "NotFound" THEN "NotFound"
    ELSE IF answer.kind = "Error" THEN "DescribeFailed"
    ELSE IF answer.kind = "NoReservation" THEN "ExpectedInstance"
    ELSE ErrNil

getInstance(answer, convention) ==
    IF answer.kind = "NotFound" THEN "NotFound"
    ELSE IF answer.kind = "Error" THEN "DescribeFailed"
    ELSE IF answer.kind = "NoReservation" THEN "ExpectedInstance"
    ELSE IF convention = ResourceName THEN ErrNil
    ELSE IF answer.instance.PrivateDnsName = "" THEN "PrivateDnsNameNotSet"
    ELSE ErrNil

\* strings.ToLower on the hostnames of the model
ToLower(str) == IF str = "Ip-10-0-0-1" THEN "ip-10-0-0-1" ELSE str

\* getCapacityType(instance), line 363-368
InstanceCapacityType(instance) ==
    IF instance.Spot THEN CapacityTypeSpot ELSE CapacityTypeOnDemand

\* the strings of the model that Sprintf and strings.Split handle, as their characters
Chars(str) ==
    CASE str = "za" -> << "z", "a" >>
      [] str = "zb" -> << "z", "b" >>
      [] str = "i-1" -> << "i", "-", "1" >>
      [] str = "i-2" -> << "i", "-", "2" >>
      [] str = "aws:///" -> << "a", "w", "s", ":", "/", "/", "/" >>
      [] str = "aws://" -> << "a", "w", "s", ":", "/", "/" >>
      [] str = "/" -> << "/" >>
      [] str = "" -> << >>

\* fmt.Sprintf("aws:///%s/%s", zone, instanceId), line 283
ProviderID(zone, instanceId) ==
    Chars("aws:///") \o Chars(zone) \o Chars("/") \o Chars(instanceId)

\* instanceToNode, line 273-294
instanceToNode(instance, its, convention) ==
    [Name |-> IF convention = ResourceName THEN instance.InstanceId
              ELSE ToLower(instance.PrivateDnsName),
     ProviderID |-> ProviderID(instance.AvailabilityZone, instance.InstanceId),
     Labels |-> [zone |-> instance.AvailabilityZone,
                 instanceType |-> instance.InstanceType,
                 capacityType |-> InstanceCapacityType(instance)]]

\* retry.Attempts(6): retry.Do gives up after the n-th failed attempt

RetryExhaustedNever(n) == FALSE

RetryExhausted(n) == n >= Attempts

\* instanceToNode, line 251-252: the search for the instance's type in instanceTypes

RecognizedFirstOnly(instance, its) ==
    its # << >> /\ Name(its[1]) = instance.InstanceType

Recognized(instance, its) ==
    \E i \in DOMAIN its : Name(its[i]) = instance.InstanceType

\* Create, line 89-91: retry.Do returned an error

LookupFailedCleanup(err) ==
    /\ pc' = "done"
    /\ createErr' = err
    /\ launched' = NoInstance
    /\ terminateCalls' = terminateCalls + 1
    /\ UNCHANGED node

LookupFailed(err) ==
    /\ pc' = "done"
    /\ createErr' = err
    /\ UNCHANGED << node, launched, terminateCalls >>

\* one attempt of retry.Do, and what Create does when retry.Do returns
GetInstanceAttempt ==
    /\ pc = "getInstance"
    /\ describeCalls' = describeCalls + 1
    /\ \E answer \in DescribeAnswers :
          /\ describeOutput' = answer
          /\ LET err == getInstance(answer, nodeNameConvention)
             IN  IF err # ErrNil
                 THEN IF RetryExhausted(describeCalls')
                      THEN LookupFailed(err)
                      ELSE UNCHANGED << pc, createErr, node, launched, terminateCalls >>
                 ELSE IF Recognized(answer.instance, instanceTypes)
                 THEN /\ pc' = "done"
                      /\ createErr' = ErrNil
                      /\ node' = instanceToNode(answer.instance, instanceTypes,
                                                nodeNameConvention)
                      /\ UNCHANGED << launched, terminateCalls >>
                 ELSE /\ pc' = "panic"
                      /\ UNCHANGED << createErr, node, launched, terminateCalls >>
    /\ UNCHANGED << createConstraints, candidates, nodeNameConvention, instanceTypes,
                    capacityType, subnets, launchTemplates, createFleetInput,
                    createFleetOutput, id, fleetCalls, cache, errs >>
    /\ UNCHANGED << nodeVars, terminateVars, concurrentVars >>

(***************************************************************************)
(* Terminate and getInstanceID.                                            *)
(***************************************************************************)
MaxTerminateCalls == 3

RECURSIVE Split(_, _)
\* strings.Split(str, sep) for a separator of one character
Split(str, sep) ==
    IF \A i \in DOMAIN str : str[i] # sep THEN << str >>
    ELSE LET k == CHOOSE i \in DOMAIN str :
                      str[i] = sep /\ \A j \in 1..(i - 1) : str[j] # sep
         IN  << SubSeq(str, 1, k - 1) >> \o Split(SubSeq(str, k + 1, Len(str)), sep)

\* getInstanceID, line 344-350

getInstanceIDFourth(nd) ==
    LET segments == Split(nd.ProviderID, "/")
    IN  IF Len(segments) < 4 THEN [err |-> TRUE, id |-> None]
        ELSE [err |-> FALSE, id |-> segments[4]]

getInstanceID(nd) ==
    LET segments == Split(nd.ProviderID, "/")
    IN  IF Len(segments) < 5 THEN [err |-> TRUE, id |-> None]
        ELSE [err |-> FALSE, id |-> segments[5]]

\* the instances EC2 may hold when Terminate is called
InstanceChoices ==
    { [InstanceId |-> i, InstanceType |-> "s1", AvailabilityZone |-> zone,
       PrivateDnsName |-> "Ip-10-0-0-1", Spot |-> spot] :
        i \in {"i-1", "i-2"}, zone \in Zones, spot \in BOOLEAN }

\* provider ids of nodes that Create did not build
OtherProviderIDs ==
    { Chars(""),
      Chars("i-1"),
      Chars("aws:///") \o Chars("za"),
      Chars("aws://") \o Chars("za") \o Chars("/") \o Chars("i-1"),
      Chars("aws:///") \o Chars("za") \o Chars("/") \o Chars("i-1") \o Chars("/")
          \o Chars("zb"),
      Chars("/") \o Chars("/") \o Chars("/") \o Chars("/"),
      Chars("za") \o Chars("/") \o Chars("zb") \o Chars("/") \o Chars("aws://")
          \o Chars("i-2") }

\* what TerminateInstances may answer: an instance that is there is terminated unless
\* the request fails, one that is not is reported as not found
TerminateAnswers(instanceId) ==
    IF launched # NoInstance /\ Chars(launched.InstanceId) = instanceId
    THEN {"ok", "Error"}
    ELSE {"NotFound", "Error"}

\* Terminate, line 109-117: what it returns for the answer of TerminateInstances

TerminateErrorStrict(answer) ==
    IF answer = "ok" THEN ErrNil ELSE "terminating instance"

TerminateError(answer) ==
    IF answer = "ok" THEN ErrNil
    ELSE IF answer = "NotFound" THEN ErrNil
    ELSE "terminating instance"

\* Terminate, line 104-118
Terminate ==
    /\ pc = "idle"
    /\ LET parsed == getInstanceID(node)
       IN  IF parsed.err
           THEN /\ terminateErr' = "getting instance ID"
                /\ UNCHANGED << terminateInput, terminateOutput, terminateCalls, launched >>
           ELSE /\ terminateCalls < MaxTerminateCalls
                /\ terminateCalls' = terminateCalls + 1
                /\ terminateInput' = parsed.id
                /\ \E answer \in TerminateAnswers(parsed.id) :
                      /\ terminateOutput' = answer
                      /\ launched' = IF answer = "ok" THEN NoInstance ELSE launched
                      /\ terminateErr' = TerminateError(answer)
    /\ UNCHANGED << createConstraints, candidates, nodeNameConvention, pc, instanceTypes,
                    capacityType, subnets, launchTemplates, createFleetInput,
                    createFleetOutput, id, fleetCalls, describeCalls, describeOutput,
                    cache, createErr, errs, node >>
    /\ UNCHANGED << nodeVars, concurrentVars >>

TerminateNext == Terminate

(***************************************************************************)
(* Two Create calls of one provider at the same time: each is in           *)
(* getOverrides, line 188-196, with the slice subnetProvider.Get gave to   *)
(* both.                                                                   *)
(***************************************************************************)
Callers == {1, 2}

\* the candidate lists that make one launch template: one getOverrides call per Create
OneTemplateLists ==
    { list \in CandidateLists :
        Cardinality(DOMAIN LaunchTemplatesGet(CreateInstanceTypes(list))) = 1 }

\* the less function given to sort.Slice, line 191-193
Less(slice, a, b) ==
    slice[a].AvailableIpAddressCount < slice[b].AvailableIpAddressCount

\* a call entering sort.Slice: the insertion sort starts at the second element
CallStart ==
    [pc |-> "less", i |-> 2, j |-> 2, k |-> 1, loaded |-> << >>,
     zonalSubnets |-> << >>, overrides |-> << >>]

\* sort.Slice, line 191: the test of the inner loop of the insertion sort,
\* j > first && less(j, j-1), and the advance of the outer loop when it fails
SortLess(c) ==
    /\ calls[c].pc = "less"
    /\ LET i == calls[c].i
           j == calls[c].j
       IN  calls' = [calls EXCEPT ![c] =
                IF i > Len(sharedSubnets) THEN [@ EXCEPT !.pc = "range"]
                ELSE IF j > 1 /\ Less(sharedSubnets, j, j - 1) THEN [@ EXCEPT !.pc = "load"]
                ELSE [@ EXCEPT !.i = i + 1, !.j = i + 1]]
    /\ UNCHANGED sharedSubnets
    /\ UNCHANGED << nodeVars, createVars, terminateVars >>

\* sort.Slice, line 191: swap(j, j-1) reads the two elements
SortSwapLoad(c) ==
    /\ calls[c].pc = "load"
    /\ calls' = [calls EXCEPT ![c] =
            [@ EXCEPT !.pc = "store",
                      !.loaded = << sharedSubnets[calls[c].j], sharedSubnets[calls[c].j - 1] >>]]
    /\ UNCHANGED sharedSubnets
    /\ UNCHANGED << nodeVars, createVars, terminateVars >>

\* sort.Slice, line 191: swap(j, j-1) writes them back exchanged, in the slice itself
SortSwapStore(c) ==
    /\ calls[c].pc = "store"
    /\ sharedSubnets' = [sharedSubnets EXCEPT ![calls[c].j] = calls[c].loaded[2],
                                              ![calls[c].j - 1] = calls[c].loaded[1]]
    /\ calls' = [calls EXCEPT ![c] =
            [@ EXCEPT !.pc = "less", !.j = calls[c].j - 1, !.loaded = << >>]]
    /\ UNCHANGED << nodeVars, createVars, terminateVars >>

\* getOverrides, line 194-196: one round of the loop over the slice; after the last
\* one, the overrides of line 198-226 from the zonalSubnets the loop has built
RangeSubnets(c) ==
    /\ calls[c].pc = "range"
    /\ LET k == calls[c].k
           zonal == calls[c].zonalSubnets
       IN  calls' = [calls EXCEPT ![c] =
                IF k > Len(sharedSubnets)
                THEN [@ EXCEPT !.pc = "done",
                               !.overrides = OverridesFrom(instanceTypes, 0, zonal,
                                                           ZonesOf(createConstraints),
                                                           capacityType)]
                ELSE [@ EXCEPT !.k = k + 1,
                               !.zonalSubnets =
                                   [zone \in DOMAIN zonal
                                              \cup {sharedSubnets[k].AvailabilityZone} |->
                                       IF zone = sharedSubnets[k].AvailabilityZone
                                       THEN sharedSubnets[k]
                                       ELSE zonal[zone]]]]
    /\ UNCHANGED sharedSubnets
    /\ UNCHANGED << nodeVars, createVars, terminateVars >>

ConcurrentNext ==
    \/ \E c \in Callers : SortLess(c)
    \/ \E c \in Callers : SortSwapLoad(c)
    \/ \E c \in Callers : SortSwapStore(c)
    \/ \E c \in Callers : RangeSubnets(c)

CreateNext ==
    \/ CreateBegin
    \/ CreateFleetWithContext
    \/ LaunchInstanceHarvest
    \/ LaunchInstanceResult
    \/ GetInstanceAttempt

(***************************************************************************)
(* The specifications.                                                     *)
(***************************************************************************)
\* no node is being built
NodeIdle ==
    /\ NewNode(Requirements(Zones, CapacityTypes, Labels), [cpu |-> 0, gpu |-> 0], << >>)
    /\ original = << >>
    /\ addErr = None

\* no Create call is running
CreateIdle ==
    /\ createConstraints = Requirements(Zones, CapacityTypes, Labels)
    /\ candidates = << >>
    /\ nodeNameConvention = IPName
    /\ pc = "idle"
    /\ instanceTypes = << >>
    /\ capacityType = None
    /\ subnets = << >>
    /\ launchTemplates = << >>
    /\ createFleetInput = NoInput
    /\ createFleetOutput = NoOutput
    /\ id = None
    /\ fleetCalls = 0
    /\ describeCalls = 0
    /\ describeOutput = NoAnswer
    /\ terminateCalls = 0
    /\ cache = << >>
    /\ launched = NoInstance
    /\ createErr = None
    /\ errs = << >>
    /\ node = NoNode

\* no Terminate call was made
TerminateIdle ==
    /\ terminateInput = None
    /\ terminateOutput = None
    /\ terminateErr = None

\* no two Create calls are running together
ConcurrentIdle ==
    /\ sharedSubnets = << >>
    /\ calls = << >>

\* NewNode, then Add calls
InitNode == NodeInit /\ CreateIdle /\ TerminateIdle /\ ConcurrentIdle
SpecNode == InitNode /\ [][NodeNext]_vars

\* one Create call
InitCreate == CreateInit /\ NodeIdle /\ TerminateIdle /\ ConcurrentIdle
SpecCreate == InitCreate /\ [][CreateNext]_vars

\* Terminate calls for one node: a node instanceToNode built for an instance EC2 holds
\* (id is the instance id Create had for it), or a node with another provider id
InitTerminate ==
    /\ createConstraints = Requirements(Zones, CapacityTypes, Labels)
    /\ candidates = << >>
    /\ nodeNameConvention \in {IPName, ResourceName}
    /\ pc = "idle"
    /\ instanceTypes = << "s1" >>
    /\ capacityType = None
    /\ subnets = << >>
    /\ launchTemplates = << >>
    /\ createFleetInput = NoInput
    /\ createFleetOutput = NoOutput
    /\ fleetCalls = 0
    /\ describeCalls = 0
    /\ describeOutput = NoAnswer
    /\ terminateCalls = 0
    /\ cache = << >>
    /\ createErr = None
    /\ errs = << >>
    /\ launched \in InstanceChoices
    /\ \/ /\ id = launched.InstanceId
          /\ node = instanceToNode(launched, instanceTypes, nodeNameConvention)
       \/ /\ id = None
          /\ \E providerID \in OtherProviderIDs :
                node = [Name |-> "ip-10-0-0-1", ProviderID |-> providerID, Labels |-> << >>]
    /\ NodeIdle /\ TerminateIdle /\ ConcurrentIdle
SpecTerminate == InitTerminate /\ [][TerminateNext]_vars

\* two Create calls with the same arguments, both past subnetProvider.Get and
\* launchTemplateProvider.Get and entering getOverrides with the same slice
InitConcurrent ==
    /\ createConstraints \in CreateConstraintChoices
    /\ candidates \in OneTemplateLists
    /\ nodeNameConvention = IPName
    /\ pc = "idle"
    /\ instanceTypes = CreateInstanceTypes(candidates)
    /\ capacityType = getCapacityType(createConstraints, instanceTypes)
    /\ subnets \in SubnetAnswers
    /\ launchTemplates = LaunchTemplatesGet(instanceTypes)
    /\ createFleetInput = NoInput
    /\ createFleetOutput = NoOutput
    /\ id = None
    /\ fleetCalls = 0
    /\ describeCalls = 0
    /\ describeOutput = NoAnswer
    /\ terminateCalls = 0
    /\ cache = << >>
    /\ launched = NoInstance
    /\ createErr = None
    /\ errs = << >>
    /\ node = NoNode
    /\ sharedSubnets = subnets
    /\ calls = [c \in Callers |-> CallStart]
    /\ NodeIdle /\ TerminateIdle
SpecConcurrent == InitConcurrent /\ [][ConcurrentNext]_vars

\* the same under the scheduling of the code: Create runs each of its steps as soon as
\* the one before returned, and every request to EC2 is answered
\* (the lookups read nothing of the constraints: one choice of them is enough here)
InitCreateLive == InitCreate /\ createConstraints = Requirements(Zones, CapacityTypes, Labels)
SpecCreateLive == InitCreateLive /\ [][CreateNext]_vars /\ WF_vars(CreateNext)

(***************************************************************************)
(* Claims about the node.                                                  *)
(***************************************************************************)
RECURSIVE IsSubList(_, _)
\* a is b with some elements left out, the others in b's order
IsSubList(a, b) ==
    IF a = << >> THEN TRUE
    ELSE IF b = << >> THEN FALSE
    ELSE IF Head(a) = Head(b) THEN IsSubList(Tail(a), Tail(b))
    ELSE IsSubList(a, Tail(b))

\* C1: an Add call that returns an error (IncompatibleConstraints or
\* NoInstanceTypeSatisfiesDemand) leaves the node's requirement set, resource
\* total, admitted pods and candidate list as they were before the call,
\* whatever Add calls came before.
C1_FailedAddLeavesNodeUnchanged ==
    [][addErr' \in {ErrIncompatible, ErrNoInstanceType}
        => UNCHANGED << Constraints, InstanceTypeOptions, Pods, requests >>]_vars

\* an Add failed for want of an instance type on a node that had admitted a
\* pod and had its candidate list narrowed before
C1_Witness ==
    /\ addErr = ErrNoInstanceType
    /\ Len(Pods) >= 1
    /\ Len(InstanceTypeOptions) < Len(original)

\* C2 as stated: after any sequence of Add calls, also one of which none
\* succeeded, the candidate list is the original list filtered by the node's
\* current requirement set and resource total.
C2_Original ==
    addErr # None =>
        InstanceTypeOptions = FilterInstanceTypes(original, Constraints, requests)

\* C2, amended: once at least one Add has succeeded, the candidate list is the
\* original list given to NewNode filtered by the node's current requirement
\* set and resource total (overhead plus the demands of the admitted pods).
C2_CandidatesAreOneShotFilter ==
    Len(Pods) >= 1 =>
        InstanceTypeOptions = FilterInstanceTypes(original, Constraints, requests)

\* two pods were admitted and the list was narrowed on the way
C2_Witness ==
    /\ Len(Pods) >= 2
    /\ addErr = ErrNil
    /\ Len(InstanceTypeOptions) < Len(original)
    /\ Len(InstanceTypeOptions) >= 1

\* C3: across every Add step the candidate list after the step is a sub-list
\* of the list before it, and after a successful Add it is not empty.
C3_CandidatesOnlyShrink ==
    [][/\ IsSubList(InstanceTypeOptions', InstanceTypeOptions)
       /\ Len(InstanceTypeOptions') <= Len(InstanceTypeOptions)
       /\ (addErr' = ErrNil => Len(InstanceTypeOptions') > 0)]_vars

\* a successful Add that dropped candidates and kept at least one
C3_Witness ==
    /\ addErr = ErrNil
    /\ Len(Pods) = 1
    /\ Len(InstanceTypeOptions) < Len(original)

(***************************************************************************)
(* Claims about Create.                                                    *)
(***************************************************************************)
\* the zones a subnet was resolved for
SubnetZones == { subnets[k].AvailabilityZone : k \in DOMAIN subnets }

\* the (shape, offering) pairs of a launch-template group that Create may buy:
\* the offering is of the selected kind, in an allowed zone that has a subnet
MatchingPairs(group) ==
    { p \in UNION { { << i, j >> : j \in DOMAIN Offerings(group[i]) } : i \in DOMAIN group } :
        /\ Offerings(group[p[1]])[p[2]].CapacityType = capacityType
        /\ Offerings(group[p[1]])[p[2]].Zone \in ZonesOf(createConstraints)
        /\ Offerings(group[p[1]])[p[2]].Zone \in SubnetZones }

Submitted == fleetCalls >= 1

\* C4: the selected purchase kind is spot exactly when the requirements allow
\* spot and some instance type of the list Create works on has a spot offering
\* in an allowed zone; otherwise it is on-demand.
C4_SpotIffAllowedAndOffered ==
    pc # "Create" =>
        /\ capacityType \in { CapacityTypeSpot, CapacityTypeOnDemand }
        /\ capacityType = CapacityTypeSpot <=>
              /\ CapacityTypeSpot \in CapacityTypesOf(createConstraints)
              /\ \E i \in DOMAIN instanceTypes :
                   \E j \in DOMAIN Offerings(instanceTypes[i]) :
                      /\ Offerings(instanceTypes[i])[j].CapacityType = CapacityTypeSpot
                      /\ Offerings(instanceTypes[i])[j].Zone \in ZonesOf(createConstraints)

\* spot is allowed and offered, but only outside the allowed zones: on-demand
C4_Witness ==
    /\ pc # "Create"
    /\ capacityType = CapacityTypeOnDemand
    /\ CapacityTypeSpot \in CapacityTypesOf(createConstraints)
    /\ \E i \in DOMAIN instanceTypes :
         \E j \in DOMAIN Offerings(instanceTypes[i]) :
            Offerings(instanceTypes[i])[j].CapacityType = CapacityTypeSpot

\* C5: in the submitted request every launch-template group carries exactly
\* one override per matching (shape, offering) pair of the group and no other,
\* the override's zone being the offering's; a group without a matching pair
\* is not in the request, and every group with one is.
C5_OverridesAreMatchingPairs ==
    Submitted =>
        /\ \A cfg \in createFleetInput.LaunchTemplateConfigs :
             /\ cfg.LaunchTemplateName \in DOMAIN launchTemplates
             /\ Len(cfg.Overrides) > 0
             /\ LET group == launchTemplates[cfg.LaunchTemplateName]
                IN  /\ Len(cfg.Overrides) = Cardinality(MatchingPairs(group))
                    /\ \A p \in MatchingPairs(group) :
                         Cardinality({ k \in DOMAIN cfg.Overrides :
                            /\ cfg.Overrides[k].InstanceType = Name(group[p[1]])
                            /\ cfg.Overrides[k].AvailabilityZone
                                  = Offerings(group[p[1]])[p[2]].Zone }) = 1
                    /\ \A k \in DOMAIN cfg.Overrides :
                         \E p \in MatchingPairs(group) :
                            /\ cfg.Overrides[k].InstanceType = Name(group[p[1]])
                            /\ cfg.Overrides[k].AvailabilityZone
                                  = Offerings(group[p[1]])[p[2]].Zone
        /\ \A name \in DOMAIN launchTemplates :
             Cardinality({ cfg \in createFleetInput.LaunchTemplateConfigs :
                             cfg.LaunchTemplateName = name })
                = IF MatchingPairs(launchTemplates[name]) = {} THEN 0 ELSE 1

\* two launch-template groups, one of them dropped for want of an override,
\* while an offering of the other was passed over for its zone
C5_Witness ==
    /\ Submitted
    /\ Cardinality(DOMAIN launchTemplates) = 2
    /\ Cardinality(createFleetInput.LaunchTemplateConfigs) = 1
    /\ \E cfg \in createFleetInput.LaunchTemplateConfigs :
          \E i \in DOMAIN launchTemplates[cfg.LaunchTemplateName] :
             Len(Offerings(launchTemplates[cfg.LaunchTemplateName][i])) > Len(cfg.Overrides)

\* the index, counted from 0, of a shape in the list Create works on
IndexIn(list, shape) == (CHOOSE i \in DOMAIN list : Name(list[i]) = shape) - 1

\* C6: when spot is selected, every override's priority is the index of its
\* shape in the candidate list Create works on, also across launch-template
\* groups.
C6_PriorityIsCandidateIndex ==
    (Submitted /\ capacityType = CapacityTypeSpot) =>
        \A cfg \in createFleetInput.LaunchTemplateConfigs :
            \A k \in DOMAIN cfg.Overrides :
                cfg.Overrides[k].Priority = IndexIn(instanceTypes, cfg.Overrides[k].InstanceType)

\* C7: when the collaborators answered and every launch-template group yields
\* zero overrides, Create has failed with NoOfferingsAvailable, no CreateFleet
\* and no DescribeInstances request was made and nothing was written to the
\* cache.
C7_NoOfferingsBeforeAnyCall ==
    ( /\ pc # "Create"
      /\ createErr \notin { "getting subnets", "getting launch templates" }
      /\ \A name \in DOMAIN launchTemplates :
            getOverrides(launchTemplates[name], subnets,
                         ZonesOf(createConstraints), capacityType) = << >> )
    =>  /\ pc = "done"
        /\ createErr = "NoOfferingsAvailable"
        /\ fleetCalls = 0
        /\ describeCalls = 0
        /\ cache = << >>
        /\ node = NoNode

\* subnets and launch templates were found, and no group had an override
C7_Witness ==
    /\ createErr = "NoOfferingsAvailable"
    /\ DOMAIN launchTemplates # {}
    /\ Len(subnets) > 0

\* C8: a Create call submits the CreateFleet request at most once, and once
\* whenever an override was constructed; the request asks for one instance.
C8_OnePurchasePerCreate ==
    /\ fleetCalls <= 1
    /\ ( /\ pc # "Create"
         /\ \E name \in DOMAIN launchTemplates :
               getOverrides(launchTemplates[name], subnets,
                            ZonesOf(createConstraints), capacityType) # << >> )
       => fleetCalls = 1
    /\ Submitted => createFleetInput.TotalTargetCapacity = 1

\* the purchase returned no instance and Create has returned: one request
C8_Witness ==
    /\ pc = "done"
    /\ createErr = "FleetRequestFailed"
    /\ fleetCalls = 1

\* the triples of the insufficient-capacity errors of a response, in order
InsufficientCapacityTriples(errors, ct) ==
    LET ice == SelectSeq(errors, LAMBDA e : e.ErrorCode = InsufficientCapacityErrorCode)
    IN  [i \in 1..Len(ice) |-> << ice[i].InstanceType, ice[i].AvailabilityZone, ct >>]

\* C9: for every response EC2 returns, with or without an instance id, Create
\* writes to the cache the (shape, zone, selected kind) triple of each
\* insufficient-capacity error, once per error, before the result check, and
\* writes nothing else in any other step.
C9_CacheWritesAreInsufficientCapacityErrors ==
    [][IF pc = "fleetReturned" /\ ~createFleetOutput.err
       THEN /\ cache' = cache \o InsufficientCapacityTriples(createFleetOutput.Errors,
                                                             capacityType)
            /\ pc' = "resultCheck"
       ELSE cache' = cache]_vars

\* one override had no capacity, another launched: one entry, and a node
C9_Witness ==
    /\ pc = "done"
    /\ createErr = ErrNil
    /\ node # NoNode
    /\ Len(cache) = 1
    /\ cache[1][1] # node.Labels.instanceType

\* the number of errors joined in errs
JoinedCount(joined) ==
    LET RECURSIVE Sum(_)
        Sum(S) == IF S = {} THEN 0
                  ELSE LET x == CHOOSE y \in S : TRUE IN joined[x] + Sum(S \ {x})
    IN  Sum(DOMAIN joined)

\* C10: a response without an instance id makes Create fail without any
\* description lookup, and the error reports every distinct (code, message)
\* pair of the per-override errors once; so also when there is no error at all.
C10_FleetErrorsReportedOnce ==
    [][/\ ( /\ pc = "resultCheck"
            /\ \/ Len(createFleetOutput.Instances) = 0
               \/ Len(createFleetOutput.Instances[1].InstanceIds) = 0 )
          => LET pairs == { << createFleetOutput.Errors[i].ErrorCode,
                               createFleetOutput.Errors[i].ErrorMessage >> :
                            i \in DOMAIN createFleetOutput.Errors }
             IN  /\ pc' = "done"
                 /\ createErr' = "FleetRequestFailed"
                 /\ node' = NoNode
                 /\ \A p \in pairs :
                       /\ Sprintf(p[1], p[2]) \in DOMAIN errs'
                       /\ errs'[Sprintf(p[1], p[2])] = 1
                 /\ JoinedCount(errs') = Cardinality(pairs)
       /\ createErr' = "FleetRequestFailed" => describeCalls' = 0]_vars

\* two overrides reported the same (code, message): two cache writes, one error
C10_Witness ==
    /\ createErr = "FleetRequestFailed"
    /\ Len(cache) = 2
    /\ JoinedCount(errs) = 1

\* a description getInstance can hand to instanceToNode under the convention in force
UsableDescription(answer) ==
    /\ answer.kind = "Instance"
    /\ nodeNameConvention = IPName => answer.instance.PrivateDnsName # ""

LookupErrors == {"NotFound", "DescribeFailed", "ExpectedInstance", "PrivateDnsNameNotSet"}

\* the lookups so far, in every state
LookupsBounded ==
    /\ describeCalls <= Attempts
    /\ id = None => describeCalls = 0
    /\ pc = "getInstance" =>
          /\ describeCalls < Attempts
          /\ describeCalls >= 1 => ~UsableDescription(describeOutput)
    /\ (pc = "done" /\ id # None) =>
          /\ describeCalls >= 1
          /\ \/ /\ UsableDescription(describeOutput)
                /\ createErr = ErrNil
                /\ node # NoNode
             \/ /\ ~UsableDescription(describeOutput)
                /\ describeCalls = Attempts
                /\ createErr \in LookupErrors
                /\ node = NoNode

\* C11: after a launch that returned an instance id, Create makes at least one and at
\* most Attempts description lookups, makes none after the first usable description,
\* returns a lookup error and no node when all Attempts lookups fail, and always
\* returns: no run polls for ever.
C11_LookupsBoundedAndCreateReturns ==
    /\ []LookupsBounded
    /\ [][pc = "getInstance" => describeCalls' = describeCalls + 1]_vars
    /\ <>(pc \in {"done", "panic"})

\* all Attempts lookups failed and Create returned the error of the last
C11_Witness ==
    /\ pc = "done"
    /\ describeCalls = Attempts
    /\ createErr \in LookupErrors
    /\ node = NoNode

\* the last description showed the instance without a hostname
HostnameAbsent ==
    /\ describeOutput.kind = "Instance"
    /\ describeOutput.instance.PrivateDnsName = ""

\* C12: under the hostname convention Create fails with the hostname-not-set error when
\* the description it ends on has no hostname, and no node it returns has an empty name
\* or was built from such a description; under the resource-id convention such a
\* description is accepted and the node is named after the instance id.
C12_HostnameNeededUnderHostnameConvention ==
    /\ node # NoNode => node.Name \notin {"", None}
    /\ (node # NoNode /\ nodeNameConvention = IPName) =>
          /\ ~HostnameAbsent
          /\ node.Name = ToLower(describeOutput.instance.PrivateDnsName)
    /\ (pc = "done" /\ id # None /\ HostnameAbsent) =>
          IF nodeNameConvention = IPName
          THEN createErr = "PrivateDnsNameNotSet" /\ node = NoNode
          ELSE createErr = ErrNil /\ node.Name = id
    /\ (node # NoNode /\ nodeNameConvention = ResourceName) => node.Name = id

\* all lookups done, the last one still without a hostname, under the hostname convention
C12_Witness ==
    /\ pc = "done"
    /\ nodeNameConvention = IPName
    /\ HostnameAbsent
    /\ createErr = "PrivateDnsNameNotSet"

\* C13: Create sends no termination request; when the purchase returned an instance id
\* and Create then fails (lookups exhausted, hostname missing, or the lookups cancelled),
\* the launched instance still exists when Create returns its error and no node.
C13_FailedCreateLeavesInstance ==
    /\ terminateCalls = 0
    /\ (pc = "done" /\ id # None /\ createErr # ErrNil) =>
          /\ launched # NoInstance
          /\ launched.InstanceId = id
          /\ createErr \in LookupErrors
          /\ node = NoNode

\* the lookups failed to the last (as they do once the context is cancelled) and the
\* instance is still there
C13_Witness ==
    /\ pc = "done"
    /\ id # None
    /\ createErr = "DescribeFailed"
    /\ launched.InstanceId = id
    /\ node = NoNode

\* the candidates without accelerators, in the order of the candidates
PlainShapes == SelectSeq2(candidates, { t \in Range(candidates) : Catalog[t].gpu = 0 })

Prefix(s, n) == SubSeq(s, 1, IF Len(s) < n THEN Len(s) ELSE n)

\* C14 as stated: once Create has filtered, the list it works on is exactly the plain
\* shapes of the candidates in their order when there is one, and the candidates
\* unchanged when all carry accelerators.
C14_Original ==
    pc # "Create" =>
        instanceTypes = IF PlainShapes # << >> THEN PlainShapes ELSE candidates

\* C14: the list Create works on is the first MaxInstanceTypes of the plain shapes of
\* the candidates, in their order, when there is a plain shape, and then no override
\* names an accelerator shape; when every candidate carries an accelerator it is the
\* first MaxInstanceTypes of the candidates.
C14_PlainShapesUpToTheCap ==
    pc # "Create" =>
        /\ instanceTypes = Prefix(IF PlainShapes # << >> THEN PlainShapes ELSE candidates,
                                  MaxInstanceTypes)
        /\ (PlainShapes # << >> /\ Submitted) =>
              \A o \in AllOverrides(createFleetInput) : Catalog[o.InstanceType].gpu = 0

\* a request was submitted for candidates of both sorts
C14_Witness ==
    /\ Submitted
    /\ PlainShapes # << >>
    /\ PlainShapes # candidates

\* the subnets the collaborator returned that carry the id of the override
SubnetsOf(override) ==
    { k \in DOMAIN subnets : subnets[k].SubnetId = override.SubnetId }

\* C17: every override of the submitted request carries a subnet the collaborator
\* returned, located in the override's own zone and in no other, whose count of
\* available addresses is the greatest among the returned subnets of that zone.
C17_OverrideSubnetHasMostAddresses ==
    Submitted =>
        \A o \in AllOverrides(createFleetInput) :
            /\ SubnetsOf(o) # {}
            /\ \A k \in SubnetsOf(o) :
                 /\ subnets[k].AvailabilityZone = o.AvailabilityZone
                 /\ \A j \in DOMAIN subnets :
                      subnets[j].AvailabilityZone = o.AvailabilityZone =>
                          subnets[j].AvailableIpAddressCount
                              <= subnets[k].AvailableIpAddressCount

\* an override for a zone where the collaborator returned a subnet with fewer addresses
C17_Witness ==
    /\ Submitted
    /\ \E o \in AllOverrides(createFleetInput) :
          \E k \in SubnetsOf(o), j \in DOMAIN subnets :
              /\ subnets[j].AvailabilityZone = o.AvailabilityZone
              /\ subnets[j].AvailableIpAddressCount < subnets[k].AvailableIpAddressCount

\* the names instanceToNode searches: the list after the filter and the cap
SearchedNames == { Name(instanceTypes[i]) : i \in DOMAIN instanceTypes }

\* C18: every shape named in an override of the submitted request is in the list
\* instanceToNode searches, the list after the filter and the cap; with a launch-template
\* collaborator that returns only shapes it was given and EC2 launching a shape of the
\* overrides, the launched shape is found and the unrecognized-instance-type panic is
\* never reached.
C18_OverrideShapesAreSearched ==
    /\ Submitted =>
          \A o \in AllOverrides(createFleetInput) : o.InstanceType \in SearchedNames
    /\ launched # NoInstance => launched.InstanceType \in SearchedNames
    /\ pc # "panic"
    /\ node # NoNode => node.Labels.instanceType \in SearchedNames

\* a node of the last shape of a list the cap has cut
C18_Witness ==
    /\ node # NoNode
    /\ Len(filterInstanceTypes(candidates)) > MaxInstanceTypes
    /\ Len(instanceTypes) = MaxInstanceTypes
    /\ node.Labels.instanceType = Name(instanceTypes[MaxInstanceTypes])

\* the shape of the override has an offering of the selected kind in the override's zone
FromOfferingOfSelectedKind(o) ==
    \E j \in DOMAIN Offerings(o.InstanceType) :
        /\ Offerings(o.InstanceType)[j].Zone = o.AvailabilityZone
        /\ Offerings(o.InstanceType)[j].CapacityType = capacityType

\* an on-demand offering of a group, in an allowed zone with a subnet
OnDemandPairs(group) ==
    { p \in UNION { { << i, j >> : j \in DOMAIN Offerings(group[i]) } : i \in DOMAIN group } :
        /\ Offerings(group[p[1]])[p[2]].CapacityType = CapacityTypeOnDemand
        /\ Offerings(group[p[1]])[p[2]].Zone \in ZonesOf(createConstraints)
        /\ Offerings(group[p[1]])[p[2]].Zone \in SubnetZones }

\* the selected kind in the request, the overrides and the cache; no request when spot
\* was selected and no group has a spot offering to build an override from
SelectedKindCarried ==
    /\ pc # "Create" => capacityType \in CapacityTypes
    /\ Submitted =>
          /\ createFleetInput.DefaultTargetCapacityType = capacityType
          /\ \A o \in AllOverrides(createFleetInput) : FromOfferingOfSelectedKind(o)
    /\ \A k \in DOMAIN cache : cache[k][3] = capacityType
    /\ ( /\ pc # "Create"
         /\ capacityType = CapacityTypeSpot
         /\ createErr \notin { "getting subnets", "getting launch templates" }
         /\ \A name \in DOMAIN launchTemplates :
               MatchingPairs(launchTemplates[name]) = {} )
       => /\ createErr = "NoOfferingsAvailable"
          /\ fleetCalls = 0
          /\ createFleetInput = NoInput

\* C20: the purchase kind is selected once, at the start of the call, and never changed
\* afterwards; the request's target kind, the offering behind every override and every
\* cache entry carry it; when spot was selected and no spot override can be built,
\* Create fails with NoOfferingsAvailable and submits nothing, on-demand included.
C20_PurchaseKindSelectedOnce ==
    /\ []SelectedKindCarried
    /\ [][pc # "Create" => capacityType' = capacityType]_vars

\* spot was selected, no spot override could be built, and Create failed although an
\* allowed on-demand offering had a subnet
C20_Witness ==
    /\ createErr = "NoOfferingsAvailable"
    /\ capacityType = CapacityTypeSpot
    /\ CapacityTypeOnDemand \in CapacityTypesOf(createConstraints)
    /\ \E name \in DOMAIN launchTemplates : OnDemandPairs(launchTemplates[name]) # {}

(***************************************************************************)
(* Claims about Terminate.                                                 *)
(***************************************************************************)
\* the positions of the slashes of a provider id
Slashes(str) == { i \in DOMAIN str : str[i] = "/" }

\* the provider id has five or more segments between slashes
FiveSegments(str) == Cardinality(Slashes(str)) >= 4

\* the characters after the fourth slash, up to the next slash or the end
FifthSegment(str) ==
    LET fourth == CHOOSE i \in Slashes(str) :
                      Cardinality({ j \in Slashes(str) : j < i }) = 3
        later == { j \in Slashes(str) : j > fourth }
        end == IF later = {} THEN Len(str)
               ELSE (CHOOSE j \in later : \A k \in later : j <= k) - 1
    IN  SubSeq(str, fourth + 1, end)

\* what the Terminate calls so far did for the node
TerminateOutcome ==
    /\ ~FiveSegments(node.ProviderID) =>
          /\ terminateCalls = 0
          /\ terminateInput = None
          /\ terminateErr \in {None, "getting instance ID"}
    /\ (FiveSegments(node.ProviderID) /\ terminateErr # None) =>
          /\ terminateCalls >= 1
          /\ terminateInput = FifthSegment(node.ProviderID)
          /\ terminateErr = ErrNil <=> terminateOutput \in {"ok", "NotFound"}
          /\ terminateErr # ErrNil => terminateErr = "terminating instance"

\* C15: Terminate on a node whose provider id has fewer than five slash-separated
\* segments returns the malformed-id error and sends nothing; otherwise each call sends
\* exactly one termination request, for the fifth segment, and returns success when EC2
\* answers success or not-found and an error for any other answer, so repeated calls
\* succeed also when the instance is gone.
C15_TerminateOncePerCallAndIdempotent ==
    /\ []TerminateOutcome
    /\ [][IF FiveSegments(node.ProviderID)
          THEN terminateCalls' = terminateCalls + 1
          ELSE terminateCalls' = terminateCalls /\ terminateErr' = "getting instance ID"]_vars

\* a second call, for an instance the first has terminated, succeeds on not-found
C15_Witness ==
    /\ terminateCalls >= 2
    /\ launched = NoInstance
    /\ terminateOutput = "NotFound"
    /\ terminateErr = ErrNil

\* C19: for a node instanceToNode built, the id Terminate parses out of the provider id
\* and asks EC2 to terminate is exactly the instance id the node was built for, and
\* Terminate never returns the malformed-id error for it.
C19_ProviderIDRoundTrip ==
    id # None =>
        /\ terminateErr # "getting instance ID"
        /\ terminateErr # None =>
              /\ terminateInput = Chars(id)
              /\ terminateCalls >= 1

\* Terminate has terminated the instance of a node instanceToNode built
C19_Witness ==
    /\ id # None
    /\ terminateOutput = "ok"
    /\ terminateErr = ErrNil
    /\ terminateInput = Chars(id)
    /\ launched = NoInstance

(***************************************************************************)
(* Claims about concurrent Create calls.                                   *)
(***************************************************************************)
\* the overrides getOverrides returns for the arguments when no other call runs
AloneOverrides ==
    { getOverrides(instanceTypes, sorted, ZonesOf(createConstraints), capacityType) :
        sorted \in SortSlice(subnets) }

\* C16: of two Create calls running at the same time on one provider, each returns
\* from getOverrides with overrides it could have returned running alone, whatever
\* the interleaving.
C16_ConcurrentCallsAsAlone ==
    \A c \in DOMAIN calls :
        calls[c].pc = "done" => calls[c].overrides \in AloneOverrides

(***************************************************************************)
(* Claims about the requirement set of the node.                           *)
(***************************************************************************)
\* every key of the node's requirement set allows a value
NoEmptyKey(r) == \A key \in Keys : r[key] # {}

\* the step is an Add that succeeded: it appended its pod
Admitted == Len(Pods') = Len(Pods) + 1

\* C21 as stated: while the node holds a pod, no key of its requirement set has an empty
\* set of allowed values (every admitted pod, the first included, was compatible).
C21_Original ==
    Len(Pods) >= 1 => NoEmptyKey(Constraints)

\* C21: every Add that succeeds on a node that already holds a pod admitted a pod whose
\* requirement set shares a value, on every key, with the node's requirement set as it
\* stood before the call, and leaves no key empty that was not empty before.
C21_LaterAddsAdmitCompatiblePods ==
    [][(Len(Pods) >= 1 /\ Admitted) =>
          /\ \A key \in Keys :
                Constraints[key] \cap NewPodRequirements(Pods'[Len(Pods')])[key] # {}
          /\ NoEmptyKey(Constraints) => NoEmptyKey(Constraints')]_vars

\* a second pod was admitted and narrowed the node's requirement set
C21_Witness ==
    /\ Len(Pods) >= 2
    /\ addErr = ErrNil
    /\ NoEmptyKey(Constraints)
    /\ NewPodRequirements(Pods[2]) # Requirements(Zones, CapacityTypes, Labels)
====
